---- MODULE Spec2Model ----
(***************************************************************************)
(* NotebookML, notebookml/db.py: the metadata records (MetaData,           *)
(* EntityMeta, SourceMeta, DataMeta, Data), the flatten / reconstruct      *)
(* codec used at the store boundary, meta_identifier, and the              *)
(* VectorDatabase facade over a chromadb client.                           *)
(*                                                                         *)
(* Representation of Python values:                                        *)
(*   datetime            [wall |-> n, tz |-> "naive" | "utc"]               *)
(*                       (wall clock reading in whole units; DST folds and *)
(*                       sub-unit precision are not modelled)              *)
(*   a dumped / input    [str |-> s], [float |-> n], [dt |-> datetime],    *)
(*   value               [dict |-> mapping], [model |-> record]            *)
(*   a mapping (dict)    a function from key strings to such values        *)
(*   a model instance    a record with a cls field and its Python fields   *)
(*   None                NoValue                                           *)
(***************************************************************************)
EXTENDS Integers, Sequences, FiniteSets, TLC

VARIABLES
    utcoffset,   \* UTC offset of the process's local time zone
    \* ---- the chromadb engine and the facades over it
    engine,      \* collection name -> set of stored entries, for the collections that exist
    handle,      \* session -> TRUE once a VectorDatabase has been built for it
    pc,          \* session -> position inside has_collection
    arg,         \* session -> the name has_collection was called with
    snap,        \* session -> collection_names, the local of has_collection
    result,      \* outcome of the last completed facade operation
    calls,       \* engine calls made by the last completed facade operation
    \* ---- metadata records built by a caller, and the codec applied to them
    entity,      \* the last EntityMeta constructed, or NoValue
    source,      \* the last SourceMeta constructed, or NoValue
    meta,        \* the last DataMeta constructed, or NoValue
    raised,      \* the error of the last constructor / validation call, or "none"
    flat,        \* dict(FlatDict(meta.model_dump(), delimiter='.')), or NoValue
    back,        \* DataMeta.model_validate(unflatten(flat)), or NoValue
    \* ---- two independently constructed records and their identifiers
    recA, recB, idA, idB

engineVars == <<engine, handle, pc, arg, snap, result, calls>>
codecVars == <<entity, source, meta, raised, flat, back>>
identVars == <<recA, recB, idA, idB>>
vars == <<utcoffset, engineVars, codecVars, identVars>>

-----------------------------------------------------------------------------
(* Bounds *)

MaxWall == 1        \* wall clock readings are 0..MaxWall
MaxOffset == 1      \* local UTC offsets are 0..MaxOffset
MaxItems == 1       \* items per add call
MaxLimit == 2       \* limit of a search

Walls == 0..MaxWall
Datetimes == [wall : Walls, tz : {"naive", "utc"}]

NoValue == [none |-> TRUE]
ValidationError == [error |-> "ValidationError"]

IsError(x) == "error" \in DOMAIN x

-----------------------------------------------------------------------------
(* MetaData.created_datetime: serializer and validator *)

\* datetime.timestamp(): a naive datetime is read as local time
timestamp(dt) == IF dt.tz = "naive" THEN dt.wall - utcoffset ELSE dt.wall

\* datetime.fromtimestamp(v) with no tz argument: naive local time
fromtimestamp(v) == [wall |-> v + utcoffset, tz |-> "naive"]

serialize_dt(dt) == [float |-> timestamp(dt)]

validate_dt(v) == IF "float" \in DOMAIN v THEN [dt |-> fromtimestamp(v.float)] ELSE v

-----------------------------------------------------------------------------
(* Field validation.  Field(..., enum=[...]) only annotates the JSON       *)
(* schema of a `str` field; validation of the field is that of `str`.      *)

EntityTypeEnum == {"undef", "user", "agent"}
SourceTypeEnum == {"user", "document", "website"}
DataTypeEnum == {"data", "content"}

Has(kw, k) == k \in DOMAIN kw
DatetimeOk(kw) ==
    /\ Has(kw, "created_datetime")
    /\ "dt" \in DOMAIN validate_dt(kw["created_datetime"])
StrOk(kw, k) == Has(kw, k) /\ "str" \in DOMAIN kw[k]
OptStrOk(kw, k) == Has(kw, k) => "str" \in DOMAIN kw[k]
StrOrDefault(kw, k) == IF Has(kw, k) THEN kw[k].str ELSE ""

\* type: str = Field(..., enum=[...])
TypeFieldOk(kw, enum) == StrOk(kw, "type")

EntityMeta(kw) ==
    IF /\ DatetimeOk(kw)
       /\ TypeFieldOk(kw, EntityTypeEnum)
       /\ OptStrOk(kw, "name")
       /\ StrOk(kw, "id")
    THEN [cls |-> "EntityMeta",
          created_datetime |-> validate_dt(kw["created_datetime"]).dt,
          type |-> kw["type"].str,
          name |-> StrOrDefault(kw, "name"),
          id |-> kw["id"].str]
    ELSE ValidationError

SourceMeta(kw) ==
    IF /\ DatetimeOk(kw)
       /\ TypeFieldOk(kw, SourceTypeEnum)
       /\ OptStrOk(kw, "ref")
       /\ OptStrOk(kw, "url")
    THEN [cls |-> "SourceMeta",
          created_datetime |-> validate_dt(kw["created_datetime"]).dt,
          type |-> kw["type"].str,
          ref |-> StrOrDefault(kw, "ref"),
          url |-> StrOrDefault(kw, "url")]
    ELSE ValidationError

\* a nested model field accepts an instance of the class or a mapping to validate
Nested(kw, k, cls) ==
    IF ~Has(kw, k) THEN ValidationError
    ELSE IF "model" \in DOMAIN kw[k]
         THEN (IF kw[k].model.cls = cls THEN kw[k].model ELSE ValidationError)
    ELSE IF "dict" \in DOMAIN kw[k]
         THEN (IF cls = "EntityMeta" THEN EntityMeta(kw[k].dict) ELSE SourceMeta(kw[k].dict))
    ELSE ValidationError

DataMeta(kw) ==
    IF /\ DatetimeOk(kw)
       /\ TypeFieldOk(kw, DataTypeEnum)
       /\ ~IsError(Nested(kw, "owner", "EntityMeta"))
       /\ ~IsError(Nested(kw, "creator", "EntityMeta"))
       /\ ~IsError(Nested(kw, "source", "SourceMeta"))
    THEN [cls |-> "DataMeta",
          created_datetime |-> validate_dt(kw["created_datetime"]).dt,
          type |-> kw["type"].str,
          owner |-> Nested(kw, "owner", "EntityMeta"),
          creator |-> Nested(kw, "creator", "EntityMeta"),
          source |-> Nested(kw, "source", "SourceMeta")]
    ELSE ValidationError

NULL_ENTITY ==
    EntityMeta([created_datetime |-> [dt |-> [wall |-> 0, tz |-> "naive"]],
                type |-> [str |-> "undef"],
                name |-> [str |-> "null"],
                id |-> [str |-> ""]])

Data(m, content) == [meta |-> m, content |-> content]

-----------------------------------------------------------------------------
(* model_dump: every field, defaults included, created_datetime through    *)
(* serialize_dt, nested models as nested mappings                          *)

DumpEntity(e) ==
    [created_datetime |-> serialize_dt(e.created_datetime),
     type |-> [str |-> e.type],
     name |-> [str |-> e.name],
     id |-> [str |-> e.id]]

DumpSource(s) ==
    [created_datetime |-> serialize_dt(s.created_datetime),
     type |-> [str |-> s.type],
     ref |-> [str |-> s.ref],
     url |-> [str |-> s.url]]

model_dump(m) ==
    IF m.cls = "EntityMeta" THEN DumpEntity(m)
    ELSE IF m.cls = "SourceMeta" THEN DumpSource(m)
    ELSE [created_datetime |-> serialize_dt(m.created_datetime),
          type |-> [str |-> m.type],
          owner |-> [dict |-> DumpEntity(m.owner)],
          creator |-> [dict |-> DumpEntity(m.creator)],
          source |-> [dict |-> DumpSource(m.source)]]

-----------------------------------------------------------------------------
(* dict(FlatDict(d, delimiter='.')) and unflatten *)

Delimiter == "."

IsDict(v) == "dict" \in DOMAIN v

RECURSIVE FlatItems(_, _)
FlatItems(d, prefix) ==
    UNION { IF IsDict(d[k])
            THEN FlatItems(d[k].dict, prefix \o k \o Delimiter)
            ELSE {<<prefix \o k, d[k]>>} : k \in DOMAIN d }

\* a variant of FlatDict that skips falsy leaves: the empty-string defaults are lost
FlatDictSkipEmpty(d) ==
    LET items == {it \in FlatItems(d, "") : it[2] # [str |-> ""]}
    IN  [key \in {it[1] : it \in items} |-> (CHOOSE it \in items : it[1] = key)[2]]

FlatDict(d) ==
    LET items == FlatItems(d, "")
    IN  [key \in {it[1] : it \in items} |-> (CHOOSE it \in items : it[1] = key)[2]]

\* the names a key can be made of, and the key paths of a record tree of depth 2
FieldNames == {"created_datetime", "type", "name", "id", "ref", "url",
               "owner", "creator", "source"}
KeyPaths == {<<f>> : f \in FieldNames} \cup {<<f, g>> : f \in FieldNames, g \in FieldNames}

Join(p) == IF Len(p) = 1 THEN p[1] ELSE p[1] \o Delimiter \o p[2]

\* key.split('.'): the path whose components, joined by the delimiter, spell the key
KeyOf == [p \in KeyPaths |-> Join(p)]
Split(key) == CHOOSE p \in KeyPaths : KeyOf[p] = key

unflatten(f) ==
    LET paths == {p \in KeyPaths : KeyOf[p] \in DOMAIN f}
    IN  [h \in {p[1] : p \in paths} |->
            IF <<h>> \in paths
            THEN f[h]
            ELSE [dict |-> [g \in {p[2] : p \in {q \in paths : Len(q) = 2 /\ q[1] = h}} |->
                                f[KeyOf[<<h, g>>]]]]]

Flatten(m) == FlatDict(model_dump(m))
Reconstruct(f) == DataMeta(unflatten(f))

-----------------------------------------------------------------------------
(* meta_identifier.  model_dump_json is the dumped fields in declaration   *)
(* order; a digest is modelled as collision free: it is the pair of the    *)
(* algorithm and the bytes it was computed over.                           *)

EntityOrder == <<"created_datetime", "type", "name", "id">>
SourceOrder == <<"created_datetime", "type", "ref", "url">>
DataOrder == <<"created_datetime", "type", "owner", "creator", "source">>

JsonOf(d, order) == [i \in 1..Len(order) |-> <<order[i], d[order[i]]>>]

model_dump_json(m) ==
    IF m.cls = "EntityMeta" THEN JsonOf(DumpEntity(m), EntityOrder)
    ELSE IF m.cls = "SourceMeta" THEN JsonOf(DumpSource(m), SourceOrder)
    ELSE JsonOf([created_datetime |-> serialize_dt(m.created_datetime),
                 type |-> [str |-> m.type],
                 owner |-> [json |-> JsonOf(DumpEntity(m.owner), EntityOrder)],
                 creator |-> [json |-> JsonOf(DumpEntity(m.creator), EntityOrder)],
                 source |-> [json |-> JsonOf(DumpSource(m.source), SourceOrder)]],
                DataOrder)

sha256(bytes) == [alg |-> "sha256", of |-> bytes]
sha1(bytes) == [alg |-> "sha1", of |-> bytes]

meta_identifier(m) ==
    LET meta_encoded == model_dump_json(m)
    IN  <<sha256(meta_encoded), sha1(meta_encoded)>>

-----------------------------------------------------------------------------
(* Inputs a caller passes to the constructors *)

DatetimeInputs == {[dt |-> d] : d \in Datetimes}

Epoch(tz) == [dt |-> [wall |-> 0, tz |-> tz]]

EntityKwargs ==
    {[created_datetime |-> Epoch("naive"), type |-> [str |-> "agent"],
      name |-> [str |-> "assistant"], id |-> [str |-> "u1"]],
     [created_datetime |-> Epoch("utc"), type |-> [str |-> "agent"], id |-> [str |-> "u1"]],
     [created_datetime |-> Epoch("naive"), type |-> [str |-> "robot"], id |-> [str |-> "u1"]],
     [created_datetime |-> Epoch("naive"), type |-> [str |-> "user"]]}

SourceKwargs ==
    {[created_datetime |-> Epoch("utc"), type |-> [str |-> "website"],
      url |-> [str |-> "http://x"]],
     [created_datetime |-> Epoch("naive"), type |-> [str |-> "ftp"]],
     [created_datetime |-> Epoch("naive"), url |-> [str |-> "http://x"]]}

DataKwargs(types, owners, creators, sources) ==
    {[created_datetime |-> c, type |-> [str |-> t], owner |-> [model |-> o],
      creator |-> [model |-> cr], source |-> [model |-> s]] :
        c \in DatetimeInputs, t \in types, o \in owners, cr \in creators, s \in sources}
    \cup
    {[created_datetime |-> Epoch("naive"), type |-> [str |-> "data"], owner |-> [model |-> o]] :
        o \in owners}

Built(x) == IF x = NoValue THEN {} ELSE {x}

-----------------------------------------------------------------------------
(* A caller constructing records and passing them through the codec *)

NewEntityMeta ==
    /\ \E kw \in EntityKwargs :
          LET r == EntityMeta(kw)
          IN  /\ raised' = (IF IsError(r) THEN r.error ELSE "none")
              /\ entity' = (IF IsError(r) THEN entity ELSE r)
    /\ UNCHANGED <<utcoffset, engineVars, identVars, source, meta, flat, back>>

NewSourceMeta ==
    /\ \E kw \in SourceKwargs :
          LET r == SourceMeta(kw)
          IN  /\ raised' = (IF IsError(r) THEN r.error ELSE "none")
              /\ source' = (IF IsError(r) THEN source ELSE r)
    /\ UNCHANGED <<utcoffset, engineVars, identVars, entity, meta, flat, back>>

NewDataMeta ==
    /\ source # NoValue
    /\ \E kw \in DataKwargs({"content", "blob"}, {NULL_ENTITY},
                            {NULL_ENTITY} \cup Built(entity), {source}) :
          LET r == DataMeta(kw)
          IN  /\ raised' = (IF IsError(r) THEN r.error ELSE "none")
              /\ meta' = (IF IsError(r) THEN meta ELSE r)
              /\ flat' = (IF IsError(r) THEN flat ELSE NoValue)
              /\ back' = (IF IsError(r) THEN back ELSE NoValue)
    /\ UNCHANGED <<utcoffset, engineVars, identVars, entity, source>>

\* db.py line 102: dict(FlatDict(v.meta.model_dump(), delimiter='.'))
FlattenMeta ==
    /\ meta # NoValue
    /\ flat' = Flatten(meta)
    /\ back' = NoValue
    /\ UNCHANGED <<utcoffset, engineVars, identVars, entity, source, meta, raised>>

\* db.py line 85: DataMeta.model_validate(unflatten(metadata))
ReconstructMeta ==
    /\ flat # NoValue
    /\ back' = Reconstruct(flat)
    /\ raised' = (IF IsError(Reconstruct(flat)) THEN "ValidationError" ELSE "none")
    /\ UNCHANGED <<utcoffset, engineVars, identVars, entity, source, meta, flat>>

-----------------------------------------------------------------------------
(* Two independently constructed DataMeta records and their identifiers *)

IdentityEntities ==
    {NULL_ENTITY} \cup
    {EntityMeta([created_datetime |-> Epoch(tz), type |-> [str |-> "agent"],
                 name |-> [str |-> "assistant"], id |-> [str |-> "u1"]]) :
        tz \in {"naive", "utc"}}

IdentitySources ==
    {SourceMeta([created_datetime |-> Epoch("naive"), type |-> [str |-> "user"]])}

IdentityKwargs ==
    DataKwargs({"data", "content"}, {NULL_ENTITY}, IdentityEntities, IdentitySources)

NewRecordA ==
    /\ \E kw \in IdentityKwargs :
          /\ ~IsError(DataMeta(kw))
          /\ recA' = DataMeta(kw)
    /\ idA' = NoValue
    /\ UNCHANGED <<utcoffset, engineVars, codecVars, recB, idB>>

NewRecordB ==
    /\ \E kw \in IdentityKwargs :
          /\ ~IsError(DataMeta(kw))
          /\ recB' = DataMeta(kw)
    /\ idB' = NoValue
    /\ UNCHANGED <<utcoffset, engineVars, codecVars, recA, idA>>

Identify ==
    /\ recA # NoValue
    /\ recB # NoValue
    /\ idA' = meta_identifier(recA)
    /\ idB' = meta_identifier(recB)
    /\ UNCHANGED <<utcoffset, engineVars, codecVars, recA, recB>>

-----------------------------------------------------------------------------
(* The chromadb client behind the facade.  A collection holds entries      *)
(* [id, document, metadata]; the client is shared by every facade built    *)
(* on the same path.                                                       *)

Sessions == {"s1", "s2"}
Names == {"notes", "docs"}
Queries == {"hello"}

\* the configurations a caller passes: PersistentConfig(data_container_name, path)
Configs == {[cls |-> "PersistentConfig", data_container_name |-> "notes", path |-> "./db"]}

list_collections == DOMAIN engine

WithCollection(e, name) == [n \in DOMAIN e \cup {name} |-> IF n \in DOMAIN e THEN e[n] ELSE {}]

\* api.get_or_create_collection(name)
get_or_create_collection(e, name) == IF name \in DOMAIN e THEN e ELSE WithCollection(e, name)

Distinct(ids) == \A i, j \in 1..Len(ids) : ids[i] = ids[j] => i = j

\* collection.add(documents, metadatas, ids): the lists must agree in length,
\* ids must be non-empty and free of duplicates, else the call raises and
\* stores nothing; a record whose id is already stored is ignored (add
\* inserts, it never replaces: replacing is collection.upsert).
AddAccepted(documents, metadatas, ids) ==
    /\ Len(ids) > 0
    /\ Len(documents) = Len(ids)
    /\ Len(metadatas) = Len(ids)
    /\ Distinct(ids)

CollectionAdd(entries, documents, metadatas, ids) ==
    entries \cup
    {[id |-> ids[i], document |-> documents[i], metadata |-> metadatas[i]] :
        i \in {j \in 1..Len(ids) : \A e \in entries : e.id # ids[j]}}

Min(a, b) == IF a < b THEN a ELSE b

\* collection.query(query_texts, n_results): the n_results nearest entries,
\* in an order the engine chooses, as one result group
Rankings(entries, n_results) ==
    {r \in [1..Min(n_results, Cardinality(entries)) -> entries] : Distinct(r)}

QueryResult(r) ==
    [metadatas |-> <<[i \in 1..Len(r) |-> r[i].metadata]>>,
     documents |-> <<[i \in 1..Len(r) |-> r[i].document]>>]

-----------------------------------------------------------------------------
(* VectorDatabase *)

Idle(s) == pc[s] = "idle"

Outcome(op, name, input, error, value) ==
    [op |-> op, name |-> name, input |-> input, error |-> error, value |-> value]

\* persistant(cls, config), lines 27-41
Bootstrap(s, config) ==
    /\ engine' = get_or_create_collection(engine, config.data_container_name)
    /\ handle' = [handle EXCEPT ![s] = TRUE]
    /\ result' = Outcome("persistant", config.data_container_name, NoValue, "none", NoValue)
    /\ calls' = <<[call |-> "get_or_create_collection", name |-> config.data_container_name]>>

persistant(s, config) ==
    /\ Idle(s)
    /\ Bootstrap(s, config)
    /\ UNCHANGED <<utcoffset, pc, arg, snap, codecVars, identVars>>

\* IMPL = {PersistentConfig: persistant}, evaluated in the class body, where
\* `persistant` is the classmethod object itself, not a bound method
IMPL == [PersistentConfig |-> [kind |-> "classmethod", func |-> "persistant"]]

\* calling a classmethod object raises TypeError: only functions and bound
\* methods can be called
Callable(obj) == obj.kind \in {"function", "method"}

\* from_config(cls, config): cls.IMPL[type(config)](cls, config)
from_config(s, config) ==
    /\ Idle(s)
    /\ IF Callable(IMPL[config.cls])
       THEN Bootstrap(s, config)
       ELSE /\ result' = Outcome("from_config", config.data_container_name, NoValue, "TypeError", NoValue)
            /\ calls' = <<>>
            /\ UNCHANGED <<engine, handle>>
    /\ UNCHANGED <<utcoffset, pc, arg, snap, codecVars, identVars>>

\* create_collection(self, name): the engine raises when the name is taken
create_collection(s, name) ==
    /\ handle[s] /\ Idle(s)
    /\ calls' = <<[call |-> "create_collection", name |-> name]>>
    /\ IF name \in list_collections
       THEN /\ result' = Outcome("create_collection", name, NoValue, "BackendError", NoValue)
            /\ UNCHANGED engine
       ELSE /\ result' = Outcome("create_collection", name, NoValue, "none", NoValue)
            /\ engine' = WithCollection(engine, name)
    /\ UNCHANGED <<utcoffset, handle, pc, arg, snap, codecVars, identVars>>

\* a variant of the listing that answers from the names known when the facade was
\* built instead of asking the engine
CachedNames == {config.data_container_name : config \in Configs}

\* has_collection(self, name), line 65: list the collections of the engine
ListedNames == list_collections

has_collection_list(s, name) ==
    /\ handle[s] /\ Idle(s)
    /\ snap' = [snap EXCEPT ![s] = ListedNames]
    /\ arg' = [arg EXCEPT ![s] = name]
    /\ pc' = [pc EXCEPT ![s] = "listed"]
    /\ UNCHANGED <<utcoffset, engine, handle, result, calls, codecVars, identVars>>

\* has_collection(self, name), line 66: name in collection_names
has_collection_return(s) ==
    /\ pc[s] = "listed"
    /\ result' = Outcome("has_collection", arg[s], NoValue, "none", arg[s] \in snap[s])
    /\ calls' = <<[call |-> "list_collections"]>>
    /\ pc' = [pc EXCEPT ![s] = "idle"]
    /\ UNCHANGED <<utcoffset, engine, handle, arg, snap, codecVars, identVars>>

\* has_collection as add and search call it: no facade deletes a collection, so
\* a name that is listed is still there at get_collection
has_collection(name) == name \in list_collections

Zip(a, b) == [i \in 1..Min(Len(a), Len(b)) |-> <<a[i], b[i]>>]

\* a variant of the comprehension that returns the hits in the opposite order
HitsReversed(pairs) ==
    [i \in 1..Len(pairs) |->
        Data(Reconstruct(pairs[Len(pairs) + 1 - i][1]), pairs[Len(pairs) + 1 - i][2])]

\* the list comprehension of lines 85-86 over zip(metadatas, contents)
Hits(pairs) == [i \in 1..Len(pairs) |-> Data(Reconstruct(pairs[i][1]), pairs[i][2])]

\* search(self, collection_name, descriptions, limit)
search(s, name, descriptions, limit) ==
    /\ handle[s] /\ Idle(s)
    /\ IF ~has_collection(name)
       THEN /\ result' = Outcome("search", name, [descriptions |-> descriptions, limit |-> limit], "ValueError", NoValue)
            /\ calls' = <<[call |-> "list_collections"]>>
       ELSE IF limit <= 0
       THEN /\ result' = Outcome("search", name, [descriptions |-> descriptions, limit |-> limit], "BackendError", NoValue)
            /\ calls' = <<[call |-> "list_collections"],
                          [call |-> "get_collection", name |-> name],
                          [call |-> "query", query_texts |-> descriptions,
                           n_results |-> limit, results |-> NoValue]>>
       ELSE \E r \in Rankings(engine[name], limit) :
               LET results == QueryResult(r)
                   metadatas == results.metadatas[1]
                   contents == results.documents[1]
                   hits == Hits(Zip(metadatas, contents))
               IN  /\ calls' = <<[call |-> "list_collections"],
                                 [call |-> "get_collection", name |-> name],
                                 [call |-> "query", query_texts |-> descriptions,
                                  n_results |-> limit, results |-> results]>>
                   /\ result' =
                        IF \E i \in 1..Len(hits) : IsError(hits[i].meta)
                        THEN Outcome("search", name, [descriptions |-> descriptions, limit |-> limit], "ValidationError", NoValue)
                        ELSE Outcome("search", name, [descriptions |-> descriptions, limit |-> limit], "none", hits)
    /\ UNCHANGED <<utcoffset, engine, handle, pc, arg, snap, codecVars, identVars>>

\* the k-th `for v in items` over the same object: a list can be traversed
\* again, an iterator is exhausted by its first traversal
Traversal(items, k) == IF items.kind = "list" \/ k = 1 THEN items.elems ELSE <<>>

Documents(items) == [i \in 1..Len(Traversal(items, 1)) |-> Traversal(items, 1)[i].content]
Metadatas(items) == [i \in 1..Len(Traversal(items, 2)) |-> Flatten(Traversal(items, 2)[i].meta)]
Ids(items) == [i \in 1..Len(Traversal(items, 3)) |-> meta_identifier(Traversal(items, 3)[i].meta)]

\* a variant of add that obtains the collection with get_or_create_collection
\* instead of checking that it exists
add_creating(s, name, items) ==
    /\ handle[s] /\ Idle(s)
    /\ LET documents == Documents(items)
           metadatas == Metadatas(items)
           ids == Ids(items)
           ensured == get_or_create_collection(engine, name)
       IN  /\ calls' = <<[call |-> "get_or_create_collection", name |-> name],
                         [call |-> "add", documents |-> documents,
                          metadatas |-> metadatas, ids |-> ids]>>
           /\ IF AddAccepted(documents, metadatas, ids)
              THEN /\ engine' = [ensured EXCEPT ![name] =
                                    CollectionAdd(ensured[name], documents, metadatas, ids)]
                   /\ result' = Outcome("add", name, items, "none", NoValue)
              ELSE /\ engine' = ensured
                   /\ result' = Outcome("add", name, items, "BackendError", NoValue)
    /\ UNCHANGED <<utcoffset, handle, pc, arg, snap, codecVars, identVars>>

\* add(self, collection_name, items)
add(s, name, items) ==
    /\ handle[s] /\ Idle(s)
    /\ IF ~has_collection(name)
       THEN /\ result' = Outcome("add", name, items, "ValueError", NoValue)
            /\ calls' = <<[call |-> "list_collections"]>>
            /\ UNCHANGED engine
       ELSE LET documents == Documents(items)
                metadatas == Metadatas(items)
                ids == Ids(items)
            IN  /\ calls' = <<[call |-> "list_collections"],
                              [call |-> "get_collection", name |-> name],
                              [call |-> "add", documents |-> documents,
                               metadatas |-> metadatas, ids |-> ids]>>
                /\ IF AddAccepted(documents, metadatas, ids)
                   THEN /\ engine' = [engine EXCEPT ![name] =
                                         CollectionAdd(engine[name], documents, metadatas, ids)]
                        /\ result' = Outcome("add", name, items, "none", NoValue)
                   ELSE /\ UNCHANGED engine
                        /\ result' = Outcome("add", name, items, "BackendError", NoValue)
    /\ UNCHANGED <<utcoffset, handle, pc, arg, snap, codecVars, identVars>>

-----------------------------------------------------------------------------
(* The Data items callers add *)

Agent ==
    EntityMeta([created_datetime |-> [dt |-> [wall |-> 0, tz |-> "naive"]],
                type |-> [str |-> "agent"],
                name |-> [str |-> "assistant"],
                id |-> [str |-> "u1"]])

UserSource ==
    SourceMeta([created_datetime |-> [dt |-> [wall |-> 0, tz |-> "naive"]],
                type |-> [str |-> "user"]])

ContentMeta(creator) ==
    DataMeta([created_datetime |-> [dt |-> [wall |-> 0, tz |-> "naive"]],
              type |-> [str |-> "content"],
              owner |-> [model |-> NULL_ENTITY],
              creator |-> [model |-> creator],
              source |-> [model |-> UserSource]])

DataItems ==
    {Data(ContentMeta(Agent), "hello world"),
     Data(ContentMeta(Agent), "bye"),
     Data(ContentMeta(NULL_ENTITY), "hello world")}

SeqsUpTo(S, n) == UNION {[1..k -> S] : k \in 0..n}

Iterables == [kind : {"list", "generator"}, elems : SeqsUpTo(DataItems, MaxItems)]

-----------------------------------------------------------------------------
(* Specifications *)

EngineInit ==
    /\ engine = [n \in {} |-> {}]
    /\ handle = [s \in Sessions |-> FALSE]
    /\ pc = [s \in Sessions |-> "idle"]
    /\ arg = [s \in Sessions |-> "notes"]
    /\ snap = [s \in Sessions |-> {}]
    /\ result = Outcome("none", "notes", NoValue, "none", NoValue)
    /\ calls = <<>>

CodecInit ==
    /\ entity = NoValue
    /\ source = NoValue
    /\ meta = NoValue
    /\ raised = "none"
    /\ flat = NoValue
    /\ back = NoValue

IdentInit ==
    /\ recA = NoValue
    /\ recB = NoValue
    /\ idA = NoValue
    /\ idB = NoValue

Init ==
    /\ utcoffset \in 0..MaxOffset
    /\ EngineInit
    /\ CodecInit
    /\ IdentInit

\* one caller working through a facade
Caller == "s1"

Next ==
    \/ \E config \in Configs : persistant(Caller, config)
    \/ \E config \in Configs : from_config(Caller, config)
    \/ \E name \in Names : create_collection(Caller, name)
    \/ \E name \in Names, q \in Queries, limit \in 0..MaxLimit :
          search(Caller, name, q, limit)
    \/ \E name \in Names, items \in Iterables : add(Caller, name, items)

Spec == Init /\ [][Next]_vars

\* several sessions creating and looking up collections on one engine
NextSessions ==
    \/ \E s \in Sessions, config \in Configs : persistant(s, config)
    \/ \E s \in Sessions, config \in Configs : from_config(s, config)
    \/ \E s \in Sessions, name \in Names : create_collection(s, name)
    \/ \E s \in Sessions, name \in Names : has_collection_list(s, name)
    \/ \E s \in Sessions : has_collection_return(s)

SpecSessions == Init /\ [][NextSessions]_vars

\* a caller building records and passing them through the codec
NextCodec ==
    \/ NewEntityMeta
    \/ NewSourceMeta
    \/ NewDataMeta
    \/ FlattenMeta
    \/ ReconstructMeta

SpecCodec == Init /\ [][NextCodec]_vars

\* a caller building two records and asking for their identifiers
NextIdentity ==
    \/ NewRecordA
    \/ NewRecordB
    \/ Identify

SpecIdentity == Init /\ [][NextIdentity]_vars

-----------------------------------------------------------------------------
(* Properties *)

MutationCalls == {"add", "create_collection", "get_or_create_collection"}

\* C1: add and search on a name that is not among the engine's collections
\* fail with the not-found error (ValueError), make no mutating engine call
\* and leave the engine's collections and entries as they were.
C1_MissingCollectionFailsFast ==
    [][(result'.op \in {"add", "search"} /\ result'.name \notin list_collections) =>
          /\ result'.error = "ValueError"
          /\ engine' = engine
          /\ \A i \in 1..Len(calls') : calls'[i].call \notin MutationCalls]_vars

\* an add was refused for a missing collection while another collection holds entries
C1_Witness ==
    /\ result.op = "add"
    /\ result.error = "ValueError"
    /\ Len(result.input.elems) > 0
    /\ result.name \notin list_collections
    /\ \E n \in list_collections : engine[n] # {}

\* C2: whenever an item is added (from a list) whose identifier is shared with
\* a stored entry or with another item of the same call, the collection then
\* holds exactly one entry under that identifier and it holds the content of
\* the last such item.
C2_LaterAddOverwrites ==
    [][(/\ result'.op = "add"
        /\ result'.name \in list_collections
        /\ result'.input.kind = "list") =>
          LET elems == result'.input.elems
              name == result'.name
          IN  \A i \in 1..Len(elems) :
                 LET id == meta_identifier(elems[i].meta)
                     same == {j \in 1..Len(elems) : elems[j].meta = elems[i].meta}
                     last == CHOOSE j \in same : \A k \in same : k <= j
                     stored == {e \in engine'[name] : e.id = id}
                 IN  ((\E e \in engine[name] : e.id = id) \/ Cardinality(same) > 1) =>
                        /\ Cardinality(stored) = 1
                        /\ \A e \in stored : e.document = elems[last].content]_vars

\* C3: the record reconstructed from the flat mapping of a DataMeta equals it.
C3_RoundTrip == back # NoValue => back = meta

\* the leaf values of a DataMeta, in a fixed order
Leaves(m) ==
    <<m.created_datetime, m.type,
      m.owner.created_datetime, m.owner.type, m.owner.name, m.owner.id,
      m.creator.created_datetime, m.creator.type, m.creator.name, m.creator.id,
      m.source.created_datetime, m.source.type, m.source.ref, m.source.url>>

Differing(a, b) == {i \in 1..Len(Leaves(a)) : Leaves(a)[i] # Leaves(b)[i]}

\* C4: two records with the same field values have the same identifier, and
\* two records that differ in a single field have different identifiers.
C4_IdentityFollowsFields ==
    (idA # NoValue /\ idB # NoValue) =>
        /\ Cardinality(Differing(recA, recB)) = 0 => idA = idB
        /\ Cardinality(Differing(recA, recB)) = 1 => idA # idB

\* C5: every EntityMeta, SourceMeta and DataMeta that was constructed has a
\* type inside the closed set of its class.
C5_EnumClosure ==
    /\ entity # NoValue => entity.type \in EntityTypeEnum
    /\ source # NoValue => source.type \in SourceTypeEnum
    /\ meta # NoValue => meta.type \in DataTypeEnum

\* C6: a search of an existing collection makes one engine query with
\* n_results = limit, leaves the engine as it was, and when it returns, the
\* i-th Data returned is the i-th document of the first result group with
\* the DataMeta reconstructed from the i-th flat metadata.
C6_SearchKeepsRanking ==
    [][(result'.op = "search" /\ result'.name \in list_collections) =>
          /\ engine' = engine
          /\ Cardinality({i \in 1..Len(calls') : calls'[i].call = "query"}) = 1
          /\ \A i \in 1..Len(calls') :
                calls'[i].call = "query" =>
                   /\ calls'[i].n_results = result'.input.limit
                   /\ result'.error = "none" =>
                         LET metadatas == calls'[i].results.metadatas[1]
                             contents == calls'[i].results.documents[1]
                         IN  /\ Len(contents) = Len(metadatas)
                             /\ Len(result'.value) = Len(metadatas)
                             /\ \A j \in 1..Len(metadatas) :
                                   result'.value[j] =
                                      Data(Reconstruct(metadatas[j]), contents[j])]_vars

\* a search returned two hits with different metadata
C6_Witness ==
    /\ result.op = "search"
    /\ result.error = "none"
    /\ Len(result.value) = 2
    /\ result.value[1].meta # result.value[2].meta

\* C7: has_collection lists the engine's collections when it is called and
\* answers from that listing alone: it returns TRUE for a name created
\* before the call and FALSE for a name no session has created.
C7_HasCollectionAsksEngine ==
    [][\A s \in Sessions :
          /\ (pc[s] = "idle" /\ pc'[s] = "listed") => snap'[s] = list_collections
          /\ (pc[s] = "listed" /\ pc'[s] = "listed") => (snap'[s] = snap[s] /\ arg'[s] = arg[s])
          /\ (pc[s] = "listed" /\ pc'[s] = "idle") =>
                /\ result'.op = "has_collection"
                /\ result'.name = arg[s]
                /\ result'.value = (arg[s] \in snap[s])
                /\ arg[s] \notin list_collections => result'.value = FALSE]_vars

\* has_collection answered TRUE for a collection that create_collection made
C7_Witness ==
    /\ result.op = "has_collection"
    /\ result.name = "docs"
    /\ result.value = TRUE

\* C8: building a facade from a configuration never fails, leaves the
\* container among the engine's collections, and keeps every collection and
\* its entries.
C8_BootstrapEnsuresContainer ==
    [][result'.op \in {"persistant", "from_config"} =>
          /\ result'.error = "none"
          /\ result'.name \in DOMAIN engine'
          /\ \A n \in DOMAIN engine : n \in DOMAIN engine' /\ engine'[n] = engine[n]]_vars

\* C9: an add to an existing collection makes exactly one engine add call,
\* whose documents, metadatas and ids have one element per item, the i-th of
\* each coming from the i-th item.
C9_OneAlignedAddCall ==
    (result.op = "add" /\ result.error # "ValueError") =>
        LET elems == result.input.elems
        IN  /\ Cardinality({i \in 1..Len(calls) : calls[i].call = "add"}) = 1
            /\ \A i \in 1..Len(calls) :
                  calls[i].call = "add" =>
                     /\ Len(calls[i].documents) = Len(elems)
                     /\ Len(calls[i].metadatas) = Len(elems)
                     /\ Len(calls[i].ids) = Len(elems)
                     /\ \A k \in 1..Len(elems) :
                           /\ calls[i].documents[k] = elems[k].content
                           /\ calls[i].metadatas[k] = Flatten(elems[k].meta)
                           /\ calls[i].ids[k] = meta_identifier(elems[k].meta)

LeafKeys ==
    {"created_datetime", "type",
     "owner.created_datetime", "owner.type", "owner.name", "owner.id",
     "creator.created_datetime", "creator.type", "creator.name", "creator.id",
     "source.created_datetime", "source.type", "source.ref", "source.url"}

IsScalar(v) == "str" \in DOMAIN v \/ "float" \in DOMAIN v

\* C10: the flat mapping of a DataMeta has exactly the '.'-joined paths of
\* the leaves of the record tree as keys, empty-string defaults included,
\* and every value is a scalar.
C10_FlatKeys ==
    flat # NoValue =>
        /\ DOMAIN flat = LeafKeys
        /\ \A key \in DOMAIN flat : IsScalar(flat[key])

\* a DataMeta whose creator.name and source.ref are the empty default was flattened
C10_Witness ==
    /\ flat # NoValue
    /\ meta.creator.name = ""
    /\ meta.source.ref = ""
    /\ "creator.name" \in DOMAIN flat
    /\ "source.ref" \in DOMAIN flat

====
